---- MODULE Spec2Model ----
(***************************************************************************)
(* Model of the CRUD route plugin of src/routes/crud/index.ts: the five    *)
(* handlers registered on "/" and "/:id", the JavaScript number semantics  *)
(* they rely on (parseInt, NaN, Math.max, Math.min), and the User table    *)
(* behind the persistence client.                                          *)
(*                                                                         *)
(* Every handler awaits exactly one persistence call and touches no other  *)
(* shared state, so a request is one atomic step at its persistence call.  *)
(* The request in hand is recorded in req, fault, calls, resp and          *)
(* propagated until Done discards it, as the handler's locals are.         *)
(***************************************************************************)
EXTENDS Integers, Sequences, FiniteSets, TLC

(***************************************************************************)
(* Bounds                                                                  *)
(***************************************************************************)
\* longest path / query string fed to a handler
MaxLen == 3
\* number of ids the table's sequence hands out
MaxId == 2

\* characters of the id path parameter
IdChars == {"1", "2", "-", "a", ".", " "}
\* characters of the page and limit query parameters
QueryChars == {"0", "1", "-", "a"}
Emails == {"a@x.io", "b@x.io"}
Names == {"Ann", "Bob"}

(***************************************************************************)
(* Strings are sequences of one-character strings.                         *)
(***************************************************************************)
RECURSIVE Strings(_, _)
Strings(chars, n) ==
    IF n = 0 THEN {<<>>}
    ELSE LET shorter == Strings(chars, n - 1)
         IN  shorter \cup {Append(s, c) : s \in {t \in shorter : Len(t) = n - 1}, c \in chars}

\* the value of an absent optional property
undefined == <<"undefined">>
\* the value findUnique resolves to when no row matches
null == [null |-> TRUE]

\* path parameter of "/:id": the router never matches an empty segment
IdStrings == Strings(IdChars, MaxLen) \ {<<>>}
\* a query parameter is absent or any string, the empty one included
QueryStrings == Strings(QueryChars, MaxLen) \cup {undefined}
\* the query parameters the full plugin is exercised with
ShortQueryStrings == {undefined, <<"1">>, <<"0">>, <<"a">>, <<"-", "1">>, <<"1", "a">>, <<"1", "0", "1">>}
Bodies == [email : Emails, name : Names]

(***************************************************************************)
(* JavaScript numbers: an integer or NaN.                                  *)
(***************************************************************************)
Num(v) == [nan |-> FALSE, val |-> v]
NaN == [nan |-> TRUE, val |-> 0]

Digits == {"0", "1", "2", "3", "4", "5", "6", "7", "8", "9"}
WhiteSpace == {" "}

DigitValue(c) ==
    CASE c = "0" -> 0 [] c = "1" -> 1 [] c = "2" -> 2 [] c = "3" -> 3
      [] c = "4" -> 4 [] c = "5" -> 5 [] c = "6" -> 6 [] c = "7" -> 7
      [] c = "8" -> 8 [] c = "9" -> 9

RECURSIVE TrimStart(_)
TrimStart(s) ==
    IF s # <<>> /\ Head(s) \in WhiteSpace THEN TrimStart(Tail(s)) ELSE s

\* the longest prefix of s made of digits
RECURSIVE DigitPrefix(_)
DigitPrefix(s) ==
    IF s # <<>> /\ Head(s) \in Digits THEN <<Head(s)>> \o DigitPrefix(Tail(s)) ELSE <<>>

RECURSIVE DigitsValue(_, _)
DigitsValue(s, acc) ==
    IF s = <<>> THEN acc ELSE DigitsValue(Tail(s), 10 * acc + DigitValue(Head(s)))

\* parseInt(string) with no radix: leading white space is skipped, a sign is
\* read, then the longest run of decimal digits; anything after it is
\* ignored, and NaN is returned when there is no digit at all.
parseInt(str) ==
    LET trimmed == TrimStart(str)
        signed == trimmed # <<>> /\ Head(trimmed) \in {"-", "+"}
        sign == IF trimmed # <<>> /\ Head(trimmed) = "-" THEN -1 ELSE 1
        rest == IF signed THEN Tail(trimmed) ELSE trimmed
        digits == DigitPrefix(rest)
    IN  IF digits = <<>> THEN NaN ELSE Num(sign * DigitsValue(digits, 0))

isNaN(n) == n.nan

\* Math.max / Math.min of two numbers: NaN as soon as one argument is NaN
MathMax(a, b) ==
    IF a.nan \/ b.nan THEN NaN ELSE Num(IF a.val >= b.val THEN a.val ELSE b.val)
MathMin(a, b) ==
    IF a.nan \/ b.nan THEN NaN ELSE Num(IF a.val <= b.val THEN a.val ELSE b.val)
Minus(a, b) == IF a.nan \/ b.nan THEN NaN ELSE Num(a.val - b.val)
Times(a, b) == IF a.nan \/ b.nan THEN NaN ELSE Num(a.val * b.val)

\* the nullish coalescing operator ??
Coalesce(x, default) == IF x = undefined THEN default ELSE x

(***************************************************************************)
(* Errors the persistence client throws.  Only a                           *)
(* PrismaClientKnownRequestError carries a code.                           *)
(***************************************************************************)
KnownRequestError(code) == [class |-> "PrismaClientKnownRequestError", code |-> code]
NotFoundError == KnownRequestError("P2025")
OtherKnownError == KnownRequestError("P2002")
\* any error of another class: a rejected argument, a lost connection
OtherError == [class |-> "Error", code |-> "none"]
NoError == [class |-> "none", code |-> "none"]
Errors == {NotFoundError, OtherKnownError, OtherError}
\* What a persistence call may fail with on its own account: a read with an
\* error that has no code; create with any error; update and delete with
\* any error but P2025, which they throw exactly when the row is missing.
ReadFaults == {NoError, OtherError}
CreateFaults == {NoError} \cup Errors
WriteFaults == {NoError, OtherKnownError, OtherError}

(***************************************************************************)
(* State                                                                   *)
(***************************************************************************)
VARIABLES
    users,       \* the User table: id -> [email, name]
    nextId,      \* the next value of the table's id sequence
    req,         \* the request being answered
    fault,       \* what the persistence call of this request fails with on its own
    thrown,      \* what the persistence call of this request threw, NoError if nothing
    calls,       \* the persistence calls made for this request
    resp,        \* the replies sent by the handler for this request
    propagated,  \* the error that left the handler, NoError if none
    deletedIds,  \* history: ids whose Delete was answered 204
    lastCreate   \* history: the last Create answered 201 whose row is untouched since

vars == <<users, nextId, req, fault, thrown, calls, resp, propagated, deletedIds, lastCreate>>

NoRequest == [op |-> "none"]
NoCreate == [op |-> "none"]
Idle == req = NoRequest

(***************************************************************************)
(* The persistence client (prisma.user) over the User table                *)
(***************************************************************************)
User(id) == [id |-> id, email |-> users[id].email, name |-> users[id].name]

\* the rows in ascending id order
OrderedById ==
    LET ids == DOMAIN users
    IN  [i \in 1..Cardinality(ids) |->
            User(CHOOSE x \in ids : Cardinality({y \in ids : y < x}) = i - 1)]

\* findMany({skip, take, orderBy: {id: 'asc'}})
findMany(skip, take) ==
    LET all == OrderedById
        last == IF skip + take <= Len(all) THEN skip + take ELSE Len(all)
    IN  SubSeq(all, skip + 1, last)

\* findUnique({where: {id}})
findUnique(id) == IF id \in DOMAIN users THEN User(id) ELSE null

\* the table after create({data}), whose id comes from the sequence
created(data) == [i \in DOMAIN users \cup {nextId} |-> IF i = nextId THEN data ELSE users[i]]

\* the table after update({where: {id}, data}) of an existing row
updated(id, data) == [users EXCEPT ![id] = data]

\* the table after delete({where: {id}}) of an existing row
deleted(id) == [i \in DOMAIN users \ {id} |-> users[i]]

\* update and delete reject a missing row with P2025
thrownByWrite(id, f) ==
    IF f # NoError THEN f ELSE IF id \notin DOMAIN users THEN NotFoundError ELSE NoError

(***************************************************************************)
(* Replies                                                                 *)
(***************************************************************************)
\* reply.code(status).send(payload); send() with no payload is <<>>
Reply(status, payload) == [status |-> status, payload |-> payload]
NoPayload == <<>>
\* the status of a reply sent without reply.code()
DefaultStatus == 200

\* dataWrapper with a plausible fault: the success body also carries an errors key
dataWrapperWithErrors(unwrapped) == [data |-> unwrapped, errors |-> <<>>]
dataWrapper(unwrapped) == [data |-> unwrapped]
errorsBody(detail) == [errors |-> <<[detail |-> detail]>>]

InvalidIdReply == Reply(400, errorsBody("Invalid ID"))
UserNotFoundReply == Reply(404, errorsBody("User not found"))
InvalidRequestReply == Reply(400, errorsBody("Invalid request"))

(***************************************************************************)
(* GET /                                                                   *)
(***************************************************************************)
ListPage(query) == MathMax(Num(1), parseInt(Coalesce(query.page, <<"1">>)))
ListLimit(query) ==
    MathMin(Num(100), MathMax(Num(1), parseInt(Coalesce(query.limit, <<"1", "0">>))))
\* ListSkip with a plausible fault: the page is not made zero-based
ListSkipFromPage(page, limit) == Times(page, limit)
ListSkip(page, limit) == Times(Minus(page, Num(1)), limit)
ListReply(rows) == Reply(DefaultStatus, dataWrapper(rows))

\* A NaN skip or take is outside the client's contract: the call either
\* throws (f = OtherError) or answers as if the argument were absent.
List(query, f) ==
    LET page == ListPage(query)
        limit == ListLimit(query)
        skip == ListSkip(page, limit)
        rows == IF skip.nan \/ limit.nan THEN OrderedById ELSE findMany(skip.val, limit.val)
    IN  /\ req' = [op |-> "list", query |-> query]
        /\ fault' = f
        /\ thrown' = f
        /\ calls' = <<[fn |-> "findMany", skip |-> skip, take |-> limit, orderBy |-> "id asc"]>>
        /\ resp' = IF f = NoError THEN <<ListReply(rows)>> ELSE <<>>
        /\ propagated' = f
        /\ UNCHANGED <<users, nextId, deletedIds, lastCreate>>

(***************************************************************************)
(* GET /:id                                                                *)
(***************************************************************************)
\* GetReply with a plausible fault: the missing row is not checked for
GetReplyUnchecked(user) == Reply(DefaultStatus, dataWrapper(user))
GetReply(user) ==
    IF user = null THEN UserNotFoundReply ELSE Reply(DefaultStatus, dataWrapper(user))

Get(params, f) ==
    LET id == parseInt(params.id)
    IN  /\ req' = [op |-> "get", params |-> params]
        /\ IF isNaN(id)
           THEN /\ f = NoError
                /\ calls' = <<>>
                /\ resp' = <<InvalidIdReply>>
                /\ thrown' = NoError
                /\ propagated' = NoError
           ELSE /\ calls' = <<[fn |-> "findUnique", where |-> [id |-> id.val]]>>
                /\ thrown' = f
                /\ resp' = IF f = NoError THEN <<GetReply(findUnique(id.val))>> ELSE <<>>
                /\ propagated' = f
        /\ fault' = f
        /\ UNCHANGED <<users, nextId, deletedIds, lastCreate>>

(***************************************************************************)
(* POST /                                                                  *)
(***************************************************************************)
\* CreateData with a plausible fault: the name is taken from the wrong field
CreateDataNameFromEmail(body) == [email |-> body.email, name |-> body.email]
CreateData(body) == [email |-> body.email, name |-> body.name]
CreateReply(user) == Reply(201, dataWrapper(user))
\* CreateCatch with a plausible fault: the failure is reported as a server error
CreateCatchServerError(e) == Reply(500, errorsBody("Invalid request"))
CreateCatch(e) == InvalidRequestReply

Create(body, f) ==
    LET data == CreateData(body)
    IN  /\ req' = [op |-> "create", body |-> body]
        /\ fault' = f
        /\ thrown' = f
        /\ calls' = <<[fn |-> "create", data |-> data]>>
        /\ propagated' = NoError
        /\ IF f = NoError
           THEN /\ nextId <= MaxId
                /\ users' = created(data)
                /\ nextId' = nextId + 1
                /\ resp' = <<CreateReply([id |-> nextId, email |-> data.email, name |-> data.name])>>
                /\ lastCreate' = [op |-> "create", body |-> body, id |-> nextId]
           ELSE /\ resp' = <<CreateCatch(f)>>
                /\ UNCHANGED <<users, nextId, lastCreate>>
        /\ UNCHANGED deletedIds

(***************************************************************************)
(* PUT /:id and DELETE /:id                                                *)
(***************************************************************************)
\* the catch block shared by update and destroy
\* WriteCatch with a plausible fault: the error code is not looked at
WriteCatchAnyKnown(e) ==
    IF e.class = "PrismaClientKnownRequestError"
    THEN UserNotFoundReply
    ELSE InvalidRequestReply
WriteCatch(e) ==
    IF e.class = "PrismaClientKnownRequestError" /\ e.code = "P2025"
    THEN UserNotFoundReply
    ELSE InvalidRequestReply

\* the history of the last Create once row id has been written again
Untouched(id) ==
    IF lastCreate # NoCreate /\ lastCreate.id = id THEN NoCreate ELSE lastCreate

\* UpdateData with a plausible fault: the name is taken from the wrong field
UpdateDataNameFromEmail(body) == [email |-> body.email, name |-> body.email]
UpdateData(body) == [email |-> body.email, name |-> body.name]
UpdateReply(user) == Reply(DefaultStatus, dataWrapper(user))

Update(params, body, f) ==
    LET id == parseInt(params.id)
        data == UpdateData(body)
        e == thrownByWrite(id.val, f)
    IN  /\ req' = [op |-> "update", params |-> params, body |-> body]
        /\ fault' = f
        /\ propagated' = NoError
        /\ IF isNaN(id)
           THEN /\ f = NoError
                /\ calls' = <<>>
                /\ resp' = <<InvalidIdReply>>
                /\ thrown' = NoError
                /\ UNCHANGED <<users, lastCreate>>
           ELSE /\ thrown' = e
                /\ calls' = <<[fn |-> "update", where |-> [id |-> id.val], data |-> data]>>
                /\ IF e = NoError
                   THEN /\ users' = updated(id.val, data)
                        /\ resp' = <<UpdateReply([id |-> id.val, email |-> data.email, name |-> data.name])>>
                        /\ lastCreate' = Untouched(id.val)
                   ELSE /\ resp' = <<WriteCatch(e)>>
                        /\ UNCHANGED <<users, lastCreate>>
        /\ UNCHANGED <<nextId, deletedIds>>

\* DeleteReply with a plausible fault: the status is left at its default
DeleteReplyDefaultStatus == Reply(DefaultStatus, NoPayload)
DeleteReply == Reply(204, NoPayload)

Delete(params, f) ==
    LET id == parseInt(params.id)
        e == thrownByWrite(id.val, f)
    IN  /\ req' = [op |-> "delete", params |-> params]
        /\ fault' = f
        /\ propagated' = NoError
        /\ IF isNaN(id)
           THEN /\ f = NoError
                /\ calls' = <<>>
                /\ resp' = <<InvalidIdReply>>
                /\ thrown' = NoError
                /\ UNCHANGED <<users, deletedIds, lastCreate>>
           ELSE /\ thrown' = e
                /\ calls' = <<[fn |-> "delete", where |-> [id |-> id.val]]>>
                /\ IF e = NoError
                   THEN /\ users' = deleted(id.val)
                        /\ deletedIds' = deletedIds \cup {id.val}
                        /\ resp' = <<DeleteReply>>
                        /\ lastCreate' = Untouched(id.val)
                   ELSE /\ resp' = <<WriteCatch(e)>>
                        /\ UNCHANGED <<users, deletedIds, lastCreate>>
        /\ UNCHANGED nextId

\* the request is over: its reply is on the wire and its locals are gone
Done ==
    /\ ~Idle
    /\ req' = NoRequest
    /\ fault' = NoError
    /\ thrown' = NoError
    /\ calls' = <<>>
    /\ resp' = <<>>
    /\ propagated' = NoError
    /\ UNCHANGED <<users, nextId, deletedIds, lastCreate>>

(***************************************************************************)
(* Specifications                                                          *)
(***************************************************************************)
\* the server has started on an empty table and answered nothing yet
Init ==
    /\ users = <<>>
    /\ nextId = 1
    /\ req = NoRequest
    /\ fault = NoError
    /\ thrown = NoError
    /\ calls = <<>>
    /\ resp = <<>>
    /\ propagated = NoError
    /\ deletedIds = {}
    /\ lastCreate = NoCreate

\* one request is followed at a time: a handler starts when none is in hand
ListShort == Idle /\ \E page \in ShortQueryStrings, limit \in ShortQueryStrings, f \in ReadFaults :
                List([page |-> page, limit |-> limit], f)
GetAny == Idle /\ \E id \in IdStrings, f \in ReadFaults : Get([id |-> id], f)
CreateAny == Idle /\ \E body \in Bodies, f \in CreateFaults : Create(body, f)
UpdateAny == Idle /\ \E id \in IdStrings, body \in Bodies, f \in WriteFaults : Update([id |-> id], body, f)
DeleteAny == Idle /\ \E id \in IdStrings, f \in WriteFaults : Delete([id |-> id], f)

Next == ListShort \/ GetAny \/ CreateAny \/ UpdateAny \/ DeleteAny \/ Done

Spec == Init /\ [][Next]_vars

\* the list handler alone, over every query string, on a table of MaxId rows
InitList ==
    /\ users = [i \in 1..MaxId |-> [email |-> "a@x.io", name |-> "Ann"]]
    /\ nextId = MaxId + 1
    /\ req = NoRequest
    /\ fault = NoError
    /\ thrown = NoError
    /\ calls = <<>>
    /\ resp = <<>>
    /\ propagated = NoError
    /\ deletedIds = {}
    /\ lastCreate = NoCreate

ListAny == Idle /\ \E page \in QueryStrings, limit \in QueryStrings, f \in ReadFaults :
              List([page |-> page, limit |-> limit], f)

NextList == ListAny \/ Done

SpecList == InitList /\ [][NextList]_vars

(***************************************************************************)
(* Vocabulary of the properties, stated without the handlers' operators    *)
(***************************************************************************)
\* an integer written in decimal: an optional minus sign, then digits only
IsIntegerString(s) ==
    /\ s # undefined
    /\ s # <<>>
    /\ LET body == IF Head(s) = "-" THEN Tail(s) ELSE s
       IN  body # <<>> /\ \A i \in 1..Len(body) : body[i] \in Digits

RECURSIVE Pow10(_)
Pow10(n) == IF n = 0 THEN 1 ELSE 10 * Pow10(n - 1)

RECURSIVE PlaceSum(_, _)
PlaceSum(body, i) ==
    IF i > Len(body) THEN 0
    ELSE DigitValue(body[i]) * Pow10(Len(body) - i) + PlaceSum(body, i + 1)

\* the integer an integer string denotes
IntegerValue(s) ==
    IF Head(s) = "-" THEN 0 - PlaceSum(Tail(s), 1) ELSE PlaceSum(s, 1)

Answered(op) == req.op = op
ErrorsPayload(detail) == [errors |-> <<[detail |-> detail]>>]
Replied(status, payload) == resp = <<[status |-> status, payload |-> payload]>>

\* the page a list request asks for: 1 when absent, not an integer, or <= 0
EffectivePage(page) ==
    IF IsIntegerString(page) /\ IntegerValue(page) > 0 THEN IntegerValue(page) ELSE 1

\* the limit a list request asks for: 10 when absent or not an integer,
\* else the integer clamped to 1..100
EffectiveLimit(limit) ==
    IF ~IsIntegerString(limit) THEN 10
    ELSE IF IntegerValue(limit) < 1 THEN 1
    ELSE IF IntegerValue(limit) > 100 THEN 100
    ELSE IntegerValue(limit)

ExpectedFindMany(page, limit) ==
    [fn |-> "findMany",
     skip |-> [nan |-> FALSE, val |-> (EffectivePage(page) - 1) * EffectiveLimit(limit)],
     take |-> [nan |-> FALSE, val |-> EffectiveLimit(limit)],
     orderBy |-> "id asc"]

(***************************************************************************)
(* C1                                                                      *)
(***************************************************************************)
\* C1: whenever the id path parameter of a Get, Update or Delete is not an
\* integer string (a numeric prefix followed by other characters included),
\* the reply is 400 "Invalid ID" and no persistence call is made.
C1_NonIntegerIdRejected ==
    (req.op \in {"get", "update", "delete"} /\ ~IsIntegerString(req.params.id))
        => (Replied(400, ErrorsPayload("Invalid ID")) /\ calls = <<>>)

(***************************************************************************)
(* C2                                                                      *)
(***************************************************************************)
\* C2: a List request whose page and limit are each absent or an integer
\* string calls findMany exactly once, ordered by ascending id, with
\* take = L and skip = (P - 1) * L, where P is 1 for an absent or
\* non-positive page and L is 10 when absent, else clamped to 1..100;
\* so skip >= 0 and 1 <= take <= 100.
C2_ListPagination ==
    (/\ Answered("list")
     /\ (req.query.page = undefined \/ IsIntegerString(req.query.page))
     /\ (req.query.limit = undefined \/ IsIntegerString(req.query.limit)))
        => (/\ calls = <<ExpectedFindMany(req.query.page, req.query.limit)>>
            /\ calls[1].skip.val >= 0
            /\ calls[1].take.val \in 1..100)

\* a page beyond the first with a limit above the maximum
C2_Witness ==
    /\ Answered("list")
    /\ IsIntegerString(req.query.page) /\ IntegerValue(req.query.page) > 1
    /\ IsIntegerString(req.query.limit) /\ IntegerValue(req.query.limit) > 100
    /\ calls[1].take = [nan |-> FALSE, val |-> 100]
    /\ calls[1].skip.val = (IntegerValue(req.query.page) - 1) * 100

(***************************************************************************)
(* C3                                                                      *)
(***************************************************************************)
\* C3: a List request whose page or limit is present but not numeric is
\* served as if that parameter were absent (page 1, limit 10), so findMany
\* still receives an integer skip >= 0 and an integer take in 1..100.
C3_NonNumericFallsBack ==
    (/\ Answered("list")
     /\ \/ (req.query.page # undefined /\ ~IsIntegerString(req.query.page))
        \/ (req.query.limit # undefined /\ ~IsIntegerString(req.query.limit)))
        => (/\ calls = <<ExpectedFindMany(req.query.page, req.query.limit)>>
            /\ ~calls[1].skip.nan /\ calls[1].skip.val >= 0
            /\ ~calls[1].take.nan /\ calls[1].take.val \in 1..100)

(***************************************************************************)
(* C4                                                                      *)
(***************************************************************************)
HandlerStatuses == {200, 201, 204, 400, 404}

\* C4 as stated: in all five handlers an error thrown by the persistence
\* call is caught inside the handler, so every request ends with exactly
\* one reply sent by the handler, of status 200, 201, 204, 400 or 404, and
\* List always replies 200 with {data: [...]}.
C4_EveryErrorCaught ==
    ~Idle => (/\ propagated = NoError
              /\ Len(resp) = 1
              /\ resp[1].status \in HandlerStatuses
              /\ Answered("list") => (resp[1].status = 200 /\ DOMAIN resp[1].payload = {"data"}))

\* C4 amended: Create, Update and Delete catch every error of their
\* persistence call and end with exactly one reply of status 200, 201, 204,
\* 400 or 404.  List and Get do not: when findMany or findUnique throws,
\* the error leaves the handler and the handler sends no reply; when it
\* does not throw (or is not called), they too end with exactly one reply,
\* which for List is 200 with {data: [...]}.
C4_WritesCatchReadsPropagate ==
    ~Idle =>
        IF req.op \in {"list", "get"} /\ thrown # NoError
        THEN propagated = thrown /\ resp = <<>>
        ELSE /\ propagated = NoError
             /\ Len(resp) = 1
             /\ resp[1].status \in HandlerStatuses
             /\ Answered("list") => (resp[1].status = 200 /\ DOMAIN resp[1].payload = {"data"})

\* findMany has thrown and the error has left the List handler
C4_Witness ==
    /\ Answered("list")
    /\ thrown = OtherError
    /\ propagated = OtherError
    /\ resp = <<>>

(***************************************************************************)
(* C5                                                                      *)
(***************************************************************************)
\* C5: when the persistence call of Update or Delete throws the not-found
\* code P2025 the reply is 404 "User not found", when it throws anything
\* else the reply is 400 "Invalid request"; when the persistence call of
\* Create throws anything at all, P2025 included, the reply is 400
\* "Invalid request".
C5_WriteErrorMapping ==
    (req.op \in {"create", "update", "delete"} /\ thrown # NoError) =>
        IF req.op \in {"update", "delete"} /\ thrown.code = "P2025"
        THEN Replied(404, ErrorsPayload("User not found"))
        ELSE Replied(400, ErrorsPayload("Invalid request"))

\* an Update whose persistence call threw P2025, and a table that is not empty
C5_Witness ==
    /\ Answered("update")
    /\ thrown.code = "P2025"
    /\ users # <<>>
    /\ Replied(404, ErrorsPayload("User not found"))

(***************************************************************************)
(* C6 to C9 are about a persistence call that does not fail on its own     *)
(* account (fault = NoError); C4 and C5 cover the calls that do.           *)
(***************************************************************************)
\* the step that answers a request op whose id parameter is an integer string
StepOn(op) ==
    /\ Idle
    /\ req'.op = op
    /\ IsIntegerString(req'.params.id)
    /\ fault' = NoError

\* the integer that id parameter denotes
StepId == IntegerValue(req'.params.id)

Rows == [id : DOMAIN users, email : Emails, name : Names]
Stored(id) == [id |-> id, email |-> users[id].email, name |-> users[id].name]

(***************************************************************************)
(* C6                                                                      *)
(***************************************************************************)
\* C6: when the persistence call does not fail on its own account, Delete
\* on an existing id replies 204 with an empty body and removes exactly
\* that row, and from then on a Get on that id replies 404 "User not found"
\* (no operation creates the id again); Delete on an id that does not exist
\* replies 404 and leaves the table unchanged.
C6_DeleteStep ==
    /\ (StepOn("delete") /\ StepId \in DOMAIN users) =>
            /\ resp' = <<[status |-> 204, payload |-> <<>>]>>
            /\ DOMAIN users' = DOMAIN users \ {StepId}
            /\ \A j \in DOMAIN users' : users'[j] = users[j]
    /\ (StepOn("delete") /\ StepId \notin DOMAIN users) =>
            /\ resp' = <<[status |-> 404, payload |-> ErrorsPayload("User not found")]>>
            /\ users' = users
    /\ (StepOn("get") /\ StepId \in deletedIds) =>
            resp' = <<[status |-> 404, payload |-> ErrorsPayload("User not found")]>>
    /\ \A id \in deletedIds : id \in deletedIds' /\ id \notin DOMAIN users'

C6_DeleteThenNotFound == [][C6_DeleteStep]_vars

\* a Get on an id deleted earlier, after another row was created, answers 404
C6_Witness ==
    /\ Answered("get")
    /\ IsIntegerString(req.params.id)
    /\ IntegerValue(req.params.id) \in deletedIds
    /\ users # <<>>
    /\ Replied(404, ErrorsPayload("User not found"))

(***************************************************************************)
(* C7                                                                      *)
(***************************************************************************)
\* C7: a Create whose persistence call succeeds is answered 201 with the
\* row under an id assigned by the server, and a Get by that id afterwards
\* (the row not written in between, findUnique not throwing) replies 200
\* with the email and name submitted to the Create.
C7_CreateGetRoundTrip ==
    /\ (Answered("create") /\ fault = NoError) =>
            /\ lastCreate.body = req.body
            /\ lastCreate.id = nextId - 1
            /\ Replied(201, [data |-> [id |-> lastCreate.id,
                                       email |-> req.body.email,
                                       name |-> req.body.name]])
    /\ (/\ Answered("get")
        /\ lastCreate # NoCreate
        /\ IsIntegerString(req.params.id)
        /\ IntegerValue(req.params.id) = lastCreate.id
        /\ fault = NoError) =>
            /\ Len(resp) = 1
            /\ resp[1].status = 200
            /\ resp[1].payload.data.id = lastCreate.id
            /\ resp[1].payload.data.email = lastCreate.body.email
            /\ resp[1].payload.data.name = lastCreate.body.name

\* a Get of the second row created, answered 200
C7_Witness ==
    /\ Answered("get")
    /\ lastCreate # NoCreate
    /\ lastCreate.id > 1
    /\ IsIntegerString(req.params.id)
    /\ IntegerValue(req.params.id) = lastCreate.id
    /\ Len(resp) = 1
    /\ resp[1].status = 200

(***************************************************************************)
(* C8                                                                      *)
(***************************************************************************)
\* C8: when the persistence call does not fail on its own account,
\* Update on an existing id replies 200 with {data: row}, the row
\* having that id and the email and name of the request body; the table
\* then holds these values for the id and every other row is unchanged.
\* Update on an id that does not exist replies 404 "User not found" and
\* changes no row.
C8_UpdateStep ==
    /\ (StepOn("update") /\ StepId \in DOMAIN users) =>
            /\ resp' = <<[status |-> 200,
                          payload |-> [data |-> [id |-> StepId,
                                                 email |-> req'.body.email,
                                                 name |-> req'.body.name]]]>>
            /\ DOMAIN users' = DOMAIN users
            /\ users'[StepId] = [email |-> req'.body.email, name |-> req'.body.name]
            /\ \A j \in DOMAIN users \ {StepId} : users'[j] = users[j]
    /\ (StepOn("update") /\ StepId \notin DOMAIN users) =>
            /\ resp' = <<[status |-> 404, payload |-> ErrorsPayload("User not found")]>>
            /\ users' = users

C8_UpdateEffect == [][C8_UpdateStep]_vars

\* an Update answered 200 that changed one of two rows and left them different
C8_Witness ==
    /\ Answered("update")
    /\ Len(resp) = 1
    /\ resp[1].status = 200
    /\ Cardinality(DOMAIN users) = 2
    /\ \E i, j \in DOMAIN users : users[i].email # users[j].email /\ users[i].name # users[j].name

(***************************************************************************)
(* C9                                                                      *)
(***************************************************************************)
\* C9: when findUnique does not throw, Get with a well-formed id that
\* matches no row replies 404 "User not found" and Get with the id of a
\* row replies 200 with data equal to exactly that row; both leave the
\* table unchanged.
C9_GetStep ==
    StepOn("get") =>
        /\ users' = users
        /\ IF StepId \in DOMAIN users
           THEN resp' = <<[status |-> 200, payload |-> [data |-> Stored(StepId)]]>>
           ELSE resp' = <<[status |-> 404, payload |-> ErrorsPayload("User not found")]>>

C9_GetEffect == [][C9_GetStep]_vars

\* a Get answered 200 on a table of two rows
C9_Witness ==
    /\ Answered("get")
    /\ Cardinality(DOMAIN users) = 2
    /\ Len(resp) = 1
    /\ resp[1].status = 200
    /\ resp[1].payload.data \in Rows

(***************************************************************************)
(* C10                                                                     *)
(***************************************************************************)
\* C10: every JSON body sent by a handler has exactly one of the keys data
\* and errors; the statuses 200 and 201 carry data, the statuses 400 and
\* 404 carry errors, a non-empty list of {detail} items.
C10_Envelope ==
    \A i \in 1..Len(resp) :
        LET status == resp[i].status
            payload == resp[i].payload
        IN  payload # <<>> =>
                /\ Cardinality(DOMAIN payload \cap {"data", "errors"}) = 1
                /\ DOMAIN payload \subseteq {"data", "errors"}
                /\ status \in {200, 201, 400, 404}
                /\ status \in {200, 201} => "data" \in DOMAIN payload
                /\ status \in {400, 404} =>
                        /\ "errors" \in DOMAIN payload
                        /\ Len(payload.errors) >= 1
                        /\ \A k \in 1..Len(payload.errors) : DOMAIN payload.errors[k] = {"detail"}

\* an errors body sent by Create's catch block on a table that holds a row
C10_Witness ==
    /\ Answered("create")
    /\ users # <<>>
    /\ Len(resp) = 1
    /\ resp[1].status = 400
    /\ DOMAIN resp[1].payload = {"errors"}

====
